---- MODULE Spec2Model ----
(***************************************************************************)
(* Model of mlb_hof_scraper/scraper.py: get_hof_df(year) fetches one page, *)
(* checks its title, locates the section heading and the table, parses the *)
(* header, the ballot count and the body, and assembles the records.       *)
(*                                                                         *)
(* Python str values are sequences of one-character strings.  Python None  *)
(* in a str-typed slot is NoneStr.  A DOM node that find() may not find is *)
(* a sequence of length 0 (find returned None) or 1 (the Tag).             *)
(***************************************************************************)
EXTENDS Integers, Sequences, FiniteSets, TLC

VARIABLES pc, year, requests, response, html, table_section_heading, header, body,
          columns, total_ballots, rows, row_i, players_data, df, error,
          stages, calls, memo

vars == <<pc, year, requests, response, html, table_section_heading, header, body,
          columns, total_ballots, rows, row_i, players_data, df, error,
          stages, calls, memo>>

(***************************************************************************)
(* Bounds                                                                  *)
(***************************************************************************)
MaxRows == 2

MaxCalls == 3

(***************************************************************************)
(* Python values                                                           *)
(***************************************************************************)
None == <<>>

Some(x) == <<x>>

NoneStr == <<"None">>

Return(v) == [ok |-> TRUE, val |-> v]

\* raise type(text.format(*args)): args are the values interpolated into the message
Raise(type, text, args) == [ok |-> FALSE, err |-> [type |-> type, text |-> text, args |-> args]]

NoAttr(attr) ==
    Raise("AttributeError", "'NoneType' object has no attribute '" \o attr \o "'", <<>>)

(***************************************************************************)
(* str methods and the two regular expressions                             *)
(***************************************************************************)
Digits == <<"0", "1", "2", "3", "4", "5", "6", "7", "8", "9">>

UpperCase == <<"A", "B", "C", "D", "E", "F", "G", "H", "I", "J", "K", "L", "M",
               "N", "O", "P", "Q", "R", "S", "T", "U", "V", "W", "X", "Y", "Z">>

LowerCase == <<"a", "b", "c", "d", "e", "f", "g", "h", "i", "j", "k", "l", "m",
               "n", "o", "p", "q", "r", "s", "t", "u", "v", "w", "x", "y", "z">>

Whitespace == {" ", "\n", "\t"}

Range(s) == {s[i] : i \in DOMAIN s}

IsDigit(c) == c \in Range(Digits)

IsAlphaDot(c) == c \in Range(UpperCase) \cup Range(LowerCase) \cup {"."}

DigitVal(c) == (CHOOSE i \in DOMAIN Digits : Digits[i] = c) - 1

LowerChar(c) ==
    IF c \in Range(UpperCase)
    THEN LowerCase[CHOOSE i \in DOMAIN UpperCase : UpperCase[i] = c]
    ELSE c

\* str.lower()
Lower(s) == [i \in DOMAIN s |-> LowerChar(s[i])]

\* sub in s
Contains(s, sub) ==
    \E k \in 0..(Len(s) - Len(sub)) : SubSeq(s, k + 1, k + Len(sub)) = sub

RECURSIVE LStrip(_)
LStrip(s) == IF s # <<>> /\ Head(s) \in Whitespace THEN LStrip(Tail(s)) ELSE s

RECURSIVE RStrip(_)
RStrip(s) ==
    IF s # <<>> /\ s[Len(s)] \in Whitespace THEN RStrip(SubSeq(s, 1, Len(s) - 1)) ELSE s

\* str.strip()
Strip(s) == RStrip(LStrip(s))

\* int(s) for a run of decimal digits
RECURSIVE ToInt(_)
ToInt(s) == IF s = <<>> THEN 0 ELSE 10 * ToInt(SubSeq(s, 1, Len(s) - 1)) + DigitVal(s[Len(s)])

\* length of the longest prefix of s, from index k on, whose characters satisfy the class
RECURSIVE RunLen(_, _, _)
RunLen(s, k, digit) ==
    IF k <= Len(s) /\ (IF digit THEN IsDigit(s[k]) ELSE IsAlphaDot(s[k]))
    THEN 1 + RunLen(s, k + 1, digit)
    ELSE 0

\* re.compile(r"^(\d+)").match(s): group(0), or None
BallotPattern(s) ==
    LET n == RunLen(s, 1, TRUE) IN IF n = 0 THEN None ELSE Some(SubSeq(s, 1, n))

ShtmlSuffix == <<".", "s", "h", "t", "m", "l">>

\* "$" matches at the end of the string and just before a newline that ends it
AtDollar(s, k) == k = Len(s) + 1 \/ (k = Len(s) /\ s[k] = "\n")

\* ([A-Za-z.]+\d+)(\.shtml$) matched at start index k: the end of group 1, or 0.
\* Both quantifiers are greedy and the classes are disjoint, so no shorter
\* run can be followed by what the pattern wants next.
PlayerPatternAt(s, k) ==
    LET a == RunLen(s, k, FALSE)
        d == RunLen(s, k + a, TRUE)
        e == k + a + d
    IN  IF a >= 1 /\ d >= 1 /\ e + 5 <= Len(s)
           /\ SubSeq(s, e, e + 5) = ShtmlSuffix /\ AtDollar(s, e + 6)
        THEN e - 1
        ELSE 0

\* pattern.search(s): group(1) of the leftmost match, or None
PlayerPattern(s) ==
    LET starts == {k \in 1..Len(s) : PlayerPatternAt(s, k) > 0}
    IN  IF starts = {} THEN None
        ELSE LET k == CHOOSE k \in starts : \A j \in starts : k <= j
             IN  Some(SubSeq(s, k, PlayerPatternAt(s, k)))

(***************************************************************************)
(* The parsing functions                                                   *)
(***************************************************************************)
\* mutant: the column names are read from the first header row
_parse_header_FirstRow(hdr) ==
    IF hdr = None THEN Raise("TypeError", "'NoneType' object is not callable", <<>>)
    ELSE LET trs == hdr[1] IN
         IF Len(trs) < 1 THEN Raise("IndexError", "list index out of range", <<>>)
         ELSE Return([k \in DOMAIN trs[1] |-> Strip(trs[1][k])])

\* header("tr")[1].find_all("th"), each text stripped
_parse_header(hdr) ==
    IF hdr = None THEN Raise("TypeError", "'NoneType' object is not callable", <<>>)
    ELSE LET trs == hdr[1] IN
         IF Len(trs) < 2 THEN Raise("IndexError", "list index out of range", <<>>)
         ELSE Return([k \in DOMAIN trs[2] |-> Strip(trs[2][k])])

_get_total_ballots(sh) ==
    IF sh = None THEN NoAttr("find")
    ELSE IF sh[1].section_heading_text = None THEN NoAttr("find")
    ELSE IF sh[1].section_heading_text[1].li = NoneStr THEN NoAttr("get_text")
    ELSE LET text == sh[1].section_heading_text[1].li
             m == BallotPattern(text)
         IN  IF m = None THEN NoAttr("group") ELSE Return(ToInt(Strip(m[1])))

_get_player_id(player) ==
    IF player.href = NoneStr THEN Raise("KeyError", "", <<<<"h", "r", "e", "f">>>>)
    ELSE LET m == PlayerPattern(player.href)
         IN  IF m = None THEN NoAttr("group") ELSE Return(m[1])

\* the inner loop of _parse_table_body over row("td")
RECURSIVE ItemsLoop(_, _, _)
ItemsLoop(items, player_data, player_id) ==
    IF items = <<>> THEN Return(Append(player_data, player_id))
    ELSE LET item == Head(items) IN
         IF item.a # None
         THEN LET player == item.a[1]
                  r == _get_player_id(player)
              IN  IF r.ok
                  THEN ItemsLoop(Tail(items), Append(player_data, player.text), r.val)
                  ELSE r
         ELSE ItemsLoop(Tail(items), Append(player_data, item.text), player_id)

\* mutant: the identifier is appended only when a hyperlink gave one
ParseRow_SkipNoneId(row) ==
    IF row.th = NoneStr THEN NoAttr("get_text")
    ELSE LET r == ItemsLoop(row.td, <<row.th>>, NoneStr) IN
         IF r.ok /\ r.val[Len(r.val)] = NoneStr
         THEN Return(SubSeq(r.val, 1, Len(r.val) - 1))
         ELSE r

\* mutant: the first hyperlink of the row decides the identifier
RECURSIVE ItemsLoop_FirstWins(_, _, _)
ItemsLoop_FirstWins(items, player_data, player_id) ==
    IF items = <<>> THEN Return(Append(player_data, player_id))
    ELSE LET item == Head(items) IN
         IF item.a # None
         THEN LET player == item.a[1]
                  r == _get_player_id(player)
              IN  IF r.ok
                  THEN ItemsLoop_FirstWins(Tail(items), Append(player_data, player.text),
                                           IF player_id = NoneStr THEN r.val ELSE player_id)
                  ELSE r
         ELSE ItemsLoop_FirstWins(Tail(items), Append(player_data, item.text), player_id)

ParseRow_FirstWins(row) ==
    IF row.th = NoneStr THEN NoAttr("get_text")
    ELSE ItemsLoop_FirstWins(row.td, <<row.th>>, NoneStr)

\* one iteration of the outer loop of _parse_table_body: the record of one row
ParseRow(row) ==
    IF row.th = NoneStr THEN NoAttr("get_text")
    ELSE ItemsLoop(row.td, <<row.th>>, NoneStr)

(***************************************************************************)
(* Literals of the program                                                 *)
(***************************************************************************)
BASE_URL == "https://www.baseball-reference.com/"

Phrase == <<"h", "a", "l", "l", " ", "o", "f", " ", "f", "a", "m", "e", " ", "v", "o", "t", "i", "n", "g">>

PlayerIdColumn == <<"p", "l", "a", "y", "e", "r", "I", "d">>

(***************************************************************************)
(* The pages the remote site may serve.  A page is the tree BeautifulSoup  *)
(* builds: title, the element with id hof_BBWAA_sh, the element with id    *)
(* hof_BBWAA.                                                              *)
(***************************************************************************)
TitleVoting == <<"2", "0", "0", "9", " ", "H", "a", "l", "l", " ", "o", "f", " ", "F", "a", "m", "e", " ", "V", "o", "t", "i", "n", "g">>

TitleUpper == <<"H", "A", "L", "L", " ", "O", "F", " ", "F", "A", "M", "E", " ", "V", "O", "T", "I", "N", "G">>

TitleLower == <<"h", "a", "l", "l", " ", "o", "f", " ", "f", "a", "m", "e", " ", "v", "o", "t", "i", "n", "g">>

TitleOther == <<"P", "a", "g", "e", " ", "N", "o", "t", " ", "F", "o", "u", "n", "d">>

TitleNear == <<"H", "a", "l", "l", " ", "o", "f", " ", "F", "a", "m", "e">>

Li397 == <<"3", "9", "7", " ", "b", "a", "l", "l", "o", "t", "s", " ", "c", "a", "s", "t">>

LiLeadingSpace == <<" ", "3", "9", "7", " ", "b", "a", "l", "l", "o", "t", "s">>

LiNewline == <<"\n", "5", "3", "9", " ", "b", "a", "l", "l", "o", "t", "s", "\n">>

LiDigitsOnly == <<"5", "3", "9">>

LiZero == <<"0", " ", "c", "a", "s", "t">>

LiLeadingZeros == <<"0", "0", "7", "x">>

LiNoDigits == <<"b", "a", "l", "l", "o", "t", "s", " ", "3", "9", "7">>

LiBlank == <<" ">>

HrefHenderson == <<"/", "h", "/", "h", "e", "n", "d", "e", "r", "i", "0", "1", ".", "s", "h", "t", "m", "l">>

HrefRice == <<"/", "r", "/", "r", "i", "c", "e", "j", "i", "0", "1", ".", "s", "h", "t", "m", "l">>

HrefDot == <<"j", ".", "r", "0", "1", ".", "s", "h", "t", "m", "l">>

HrefTwoRuns == <<"/", "a", "b", "1", "2", "c", "d", "3", "4", ".", "s", "h", "t", "m", "l">>

HrefNewline == <<"/", "h", "/", "h", "e", "n", "d", "e", "r", "i", "0", "1", ".", "s", "h", "t", "m", "l", "\n">>

HrefHtml == <<"/", "h", "/", "h", "e", "n", "d", "e", "r", "i", "0", "1", ".", "h", "t", "m", "l">>

HrefNoDigits == <<"/", "h", "/", "h", "e", "n", "d", "e", "r", "i", ".", "s", "h", "t", "m", "l">>

HrefQuery == <<"/", "h", "/", "h", "e", "n", "d", "e", "r", "i", "0", "1", ".", "s", "h", "t", "m", "l", "?", "x">>

HrefNoLetters == <<"/", "0", "1", ".", "s", "h", "t", "m", "l">>

HrefInner == <<"a", "1", ".", "s", "h", "t", "m", "l", "/", "b">>

Years == {2009, 2030}

Page(title, sh, table) == [title |-> title, sh |-> sh, table |-> table]

Title(string) == Some([string |-> string])

SectionHeading(li) == Some([section_heading_text |-> Some([li |-> li])])

Table(thead, tbody) == Some([thead |-> thead, tbody |-> tbody])

Td(text) == [text |-> text, a |-> None]

TdA(text, href) == [text |-> text, a |-> Some([text |-> text, href |-> href])]

Tr(th, td) == [th |-> th, td |-> td]

Titles ==
    {None, Title(NoneStr), Title(TitleVoting), Title(TitleUpper), Title(TitleLower),
     Title(TitleOther), Title(TitleNear)}

LiTexts ==
    {Li397, LiLeadingSpace, LiNewline, LiDigitsOnly, LiZero, LiLeadingZeros,
     LiNoDigits, LiBlank, <<>>}

SectionHeadings ==
    {None, Some([section_heading_text |-> None]), SectionHeading(NoneStr)}
        \cup {SectionHeading(li) : li \in LiTexts}

Hrefs ==
    {HrefHenderson, HrefRice, HrefDot, HrefTwoRuns, HrefNewline, HrefHtml,
     HrefNoDigits, HrefQuery, HrefNoLetters, HrefInner}

GroupRow == <<<<>>, <<>>, <<"B", "B", "W", "A", "A">>>>

ColumnRow == <<<<"R", "k">>, <<" ", "N", "a", "m", "e", "\n">>, <<"V", "o", "t", "e", "s">>>>

Theads ==
    {None, Some(<<>>), Some(<<ColumnRow>>), Some(<<GroupRow, ColumnRow>>),
     Some(<<GroupRow, <<>>>>), Some(<<ColumnRow, GroupRow, ColumnRow>>),
     Some(<<GroupRow, ColumnRow \o <<<<"%">>>>>>),
     Some(<<GroupRow, <<<<"R", "k">>, <<"\t", "\n">>>>>>)}

tdName == Td(<<"J", "o", "e">>)

tdVotes == Td(<<" ", "5", "1">>)

tdHenderson == TdA(<<"R", "H">>, HrefHenderson)

tdRice == TdA(<<"J", "R">>, HrefRice)

tdBadHref == TdA(<<"X">>, HrefHtml)

tdNoHref == TdA(<<"Y">>, NoneStr)

TdLists ==
    {<<tdName, tdVotes>>, <<tdHenderson, tdVotes>>, <<tdHenderson, tdRice>>,
     <<tdVotes, tdRice>>, <<tdBadHref, tdVotes>>, <<tdBadHref, tdHenderson>>,
     <<tdHenderson, tdBadHref>>, <<tdNoHref, tdVotes>>, <<tdHenderson>>,
     <<tdHenderson, tdVotes, tdVotes>>, <<>>}

Rows == {Tr(<<"1">>, td) : td \in TdLists} \cup {Tr(NoneStr, <<tdHenderson, tdVotes>>)}

Bodies == UNION {[1..n -> Rows] : n \in 0..MaxRows}

NomThead == Some(<<GroupRow, ColumnRow>>)

NomBody == Some(<<Tr(<<"1">>, <<tdHenderson, tdVotes>>), Tr(<<"2">>, <<tdRice, tdVotes>>)>>)

NomTable == Table(NomThead, NomBody)

NomPage == Page(Title(TitleVoting), SectionHeading(Li397), NomTable)

TitlePages ==
    {Page(t, sh, tb) : t \in Titles, sh \in {None, SectionHeading(Li397)},
                       tb \in {None, NomTable}}

StructPages ==
    {Page(Title(TitleVoting), sh, tb) :
        sh \in SectionHeadings,
        tb \in {None} \cup {Table(th, b) : th \in Theads, b \in {None, NomBody}}}

BodyPages ==
    {Page(Title(TitleVoting), SectionHeading(Li397), Table(NomThead, Some(b))) : b \in Bodies}

HrefPages ==
    {Page(Title(TitleVoting), SectionHeading(Li397),
          Table(NomThead, Some(<<Tr(<<"1">>, <<TdA(<<"X">>, h), tdVotes>>)>>))) : h \in Hrefs}

Pages == TitlePages \cup StructPages \cup BodyPages \cup HrefPages

\* what requests.get(url) may do: raise, or return a response
StatusCodes == {200, 203, 304, 400, 404, 500, 503}

GetResults ==
    {Raise("ConnectionError", "", <<>>)}
        \cup {Return([status_code |-> 200, text |-> p]) : p \in Pages}
        \cup {Return([status_code |-> s, text |-> p]) :
                 s \in StatusCodes, p \in {NomPage, Page(Title(TitleOther), None, None)}}

(***************************************************************************)
(* The functions of the pipeline as functions of their arguments           *)
(***************************************************************************)
Url(y) == BASE_URL \o "awards/hof_" \o ToString(y) \o ".shtml"

\* mutant: only the status the message names is refused
Ok_Only404(resp) == resp.status_code # 404

\* Response.ok: raise_for_status() would not raise
Ok(resp) == ~(400 <= resp.status_code /\ resp.status_code < 600)

\* _get_hof_html, given what requests.get(url) did
_get_hof_html(y, got) ==
    IF ~got.ok THEN got
    ELSE IF ~Ok(got.val) THEN Raise("RuntimeError", "404 Response from {url}", <<Url(y)>>)
    ELSE Return(got.val.text)

\* mutant: the title is compared without lower()
TitleCheckResult_CaseSensitive(page, y) ==
    IF page.title = None THEN NoAttr("string")
    ELSE IF page.title[1].string = NoneStr THEN NoAttr("lower")
    ELSE IF ~Contains(page.title[1].string, Phrase)
         THEN Raise("ValueError", "There are no voting results for the given year {year}", <<y>>)
         ELSE Return(TRUE)

\* the title check of _parse_html_hof
TitleCheckResult(page, y) ==
    IF page.title = None THEN NoAttr("string")
    ELSE IF page.title[1].string = NoneStr THEN NoAttr("lower")
    ELSE IF ~Contains(Lower(page.title[1].string), Phrase)
         THEN Raise("ValueError", "There are no voting results for the given year {year}", <<y>>)
         ELSE Return(TRUE)

\* soup.find(id="hof_BBWAA_sh"), soup.find(id="hof_BBWAA"), table.find("thead"),
\* table.find("tbody")
LocateResult(page) ==
    IF page.table = None THEN NoAttr("find")
    ELSE Return([table_section_heading |-> page.sh,
                 header |-> page.table[1].thead,
                 body |-> page.table[1].tbody])

\* rows = body("tr")
BodyRows(b) ==
    IF b = None THEN Raise("TypeError", "'NoneType' object is not callable", <<>>)
    ELSE Return(b[1])

Max(S) == CHOOSE m \in S : \A n \in S : n <= m

Pad(rec, n) == rec \o [k \in 1..(n - Len(rec)) |-> NoneStr]

\* pd.DataFrame(data, columns=columns + ["playerId"]) with the two scalar columns:
\* short rows are padded with None up to the longest one, whose length must be
\* the number of column labels
DataFrame(data, cols, ballots, y) ==
    LET labels == Append(cols, PlayerIdColumn)
        width == IF data = <<>> THEN Len(labels) ELSE Max({Len(data[k]) : k \in DOMAIN data})
    IN  IF width # Len(labels)
        THEN Raise("ValueError", "{} columns passed, passed data had {} columns",
                   <<Len(labels), width>>)
        ELSE Return([columns |-> labels,
                     data |-> [k \in DOMAIN data |-> Pad(data[k], width)],
                     total_ballots |-> ballots,
                     year |-> y])

(***************************************************************************)
(* get_hof_df(year), one stage per action                                  *)
(***************************************************************************)
StageOrder == <<"fetch", "title", "locate", "header", "ballots", "body", "assemble">>

Locals == <<table_section_heading, header, body, columns, total_ballots, rows, row_i,
            players_data>>

\* mutant: the exception is caught and the call starts over
Fail_Retry(r, stage) ==
    /\ error' = error
    /\ pc' = "call"

\* an exception leaves the frame: it propagates to the caller of get_hof_df
Fail(r, stage) ==
    /\ error' = Some([type |-> r.err.type, text |-> r.err.text, args |-> r.err.args,
                      stage |-> stage])
    /\ pc' = "failed"

Init ==
    /\ pc = "call"
    /\ year \in Years
    /\ requests = <<>>
    /\ response = None
    /\ html = None
    /\ table_section_heading = None
    /\ header = None
    /\ body = None
    /\ columns = None
    /\ total_ballots = None
    /\ rows = <<>>
    /\ row_i = 0
    /\ players_data = <<>>
    /\ df = None
    /\ error = None
    /\ stages = <<>>
    /\ calls = 1
    /\ memo = {}

\* html = _get_hof_html(year)
GetHofHtml ==
    /\ pc = "call"
    /\ stages' = Append(stages, "fetch")
    /\ requests' = Append(requests, Url(year))
    /\ \E got \in GetResults :
         LET r == _get_hof_html(year, got) IN
         /\ response' = IF got.ok THEN Some(got.val) ELSE None
         /\ IF r.ok THEN html' = Some(r.val) /\ pc' = "title" /\ UNCHANGED error
            ELSE Fail(r, "fetch") /\ UNCHANGED html
    /\ UNCHANGED <<year, Locals, df, calls, memo>>

\* soup = BeautifulSoup(html); the title check
TitleCheck ==
    /\ pc = "title"
    /\ stages' = Append(stages, "title")
    /\ LET r == TitleCheckResult(html[1], year) IN
         IF r.ok THEN pc' = "locate" /\ UNCHANGED error
         ELSE Fail(r, "title")
    /\ UNCHANGED <<year, requests, response, html, Locals, df, calls, memo>>

\* table_section_heading, table, header, body
Locate ==
    /\ pc = "locate"
    /\ stages' = Append(stages, "locate")
    /\ table_section_heading' = html[1].sh
    /\ LET r == LocateResult(html[1]) IN
         IF r.ok
         THEN /\ header' = r.val.header
              /\ body' = r.val.body
              /\ pc' = "header"
              /\ UNCHANGED error
         ELSE Fail(r, "locate") /\ UNCHANGED <<header, body>>
    /\ UNCHANGED <<year, requests, response, html, columns, total_ballots, rows, row_i,
                   players_data, df, calls, memo>>

\* columns = _parse_header(header)
ParseHeader ==
    /\ pc = "header"
    /\ stages' = Append(stages, "header")
    /\ LET r == _parse_header(header) IN
         IF r.ok THEN columns' = Some(r.val) /\ pc' = "ballots" /\ UNCHANGED error
         ELSE Fail(r, "header") /\ UNCHANGED columns
    /\ UNCHANGED <<year, requests, response, html, table_section_heading, header, body,
                   total_ballots, rows, row_i, players_data, df, calls, memo>>

\* total_ballots = _get_total_ballots(table_section_heading)
GetTotalBallots ==
    /\ pc = "ballots"
    /\ stages' = Append(stages, "ballots")
    /\ LET r == _get_total_ballots(table_section_heading) IN
         IF r.ok THEN total_ballots' = Some(r.val) /\ pc' = "body" /\ UNCHANGED error
         ELSE Fail(r, "ballots") /\ UNCHANGED total_ballots
    /\ UNCHANGED <<year, requests, response, html, table_section_heading, header, body,
                   columns, rows, row_i, players_data, df, calls, memo>>

\* mutant: players_data is not created anew (a list shared between calls)
ParseTableBody_KeepData ==
    /\ pc = "body"
    /\ stages' = Append(stages, "body")
    /\ LET r == BodyRows(body) IN
         IF r.ok
         THEN /\ rows' = r.val
              /\ row_i' = 0
              /\ pc' = "rows"
              /\ UNCHANGED error
         ELSE Fail(r, "body") /\ UNCHANGED <<rows, row_i>>
    /\ UNCHANGED <<year, requests, response, html, table_section_heading, header, body,
                   columns, total_ballots, players_data, df, calls, memo>>

\* _parse_table_body is entered: rows = body("tr"); players_data = []
ParseTableBody ==
    /\ pc = "body"
    /\ stages' = Append(stages, "body")
    /\ LET r == BodyRows(body) IN
         IF r.ok
         THEN /\ rows' = r.val
              /\ row_i' = 0
              /\ players_data' = <<>>
              /\ pc' = "rows"
              /\ UNCHANGED error
         ELSE Fail(r, "body") /\ UNCHANGED <<rows, row_i, players_data>>
    /\ UNCHANGED <<year, requests, response, html, table_section_heading, header, body,
                   columns, total_ballots, df, calls, memo>>

\* one iteration of "for row in rows"
ParseTableRow ==
    /\ pc = "rows"
    /\ row_i < Len(rows)
    /\ row_i' = row_i + 1
    /\ LET r == ParseRow(rows[row_i + 1]) IN
         IF r.ok
         THEN players_data' = Append(players_data, r.val) /\ UNCHANGED <<pc, error>>
         ELSE Fail(r, "body") /\ UNCHANGED players_data
    /\ UNCHANGED <<year, requests, response, html, table_section_heading, header, body,
                   columns, total_ballots, rows, df, stages, calls, memo>>

\* the loop is exhausted: return players_data; return (columns, total_ballots, data)
ParseReturn ==
    /\ pc = "rows"
    /\ row_i = Len(rows)
    /\ pc' = "parsed"
    /\ UNCHANGED <<year, requests, response, html, Locals, df, error, stages, calls, memo>>

\* df = pd.DataFrame(...); df["total_ballots"]; df["year"]; return df
Assemble ==
    /\ pc = "parsed"
    /\ stages' = Append(stages, "assemble")
    /\ LET r == DataFrame(players_data, columns[1], total_ballots[1], year) IN
         IF r.ok THEN df' = Some(r.val) /\ pc' = "done" /\ UNCHANGED error
         ELSE Fail(r, "assemble") /\ UNCHANGED df
    /\ UNCHANGED <<year, requests, response, html, Locals, calls, memo>>

Parse ==
    \/ TitleCheck
    \/ Locate
    \/ ParseHeader
    \/ GetTotalBallots
    \/ ParseTableBody
    \/ ParseTableRow
    \/ ParseReturn

Next == GetHofHtml \/ Parse \/ Assemble

Spec == Init /\ [][Next]_vars

(***************************************************************************)
(* _parse_html_hof(html, year) called repeatedly by one caller.  A call's  *)
(* frame is new: the model leaves the previous call's locals in place, and *)
(* the code must assign each before it reads it.                           *)
(***************************************************************************)
RepeatPages ==
    {NomPage,
     Page(Title(TitleOther), SectionHeading(Li397), NomTable),
     Page(Title(TitleVoting), None, NomTable),
     Page(Title(TitleVoting), SectionHeading(LiDigitsOnly),
          Table(NomThead, Some(<<Tr(<<"1">>, <<tdHenderson, tdRice>>),
                                 Tr(<<"2">>, <<tdName, tdVotes>>)>>))),
     Page(Title(TitleVoting), SectionHeading(Li397),
          Table(NomThead, Some(<<Tr(<<"1">>, <<tdHenderson, tdVotes>>),
                                 Tr(<<"2">>, <<tdBadHref, tdVotes>>)>>)))}

\* what the call gave its caller: the returned tuple, or the exception
Outcome ==
    [error |-> error,
     result |-> IF error = None THEN <<columns, total_ballots, players_data>> ELSE None]

Invoke ==
    /\ pc \in {"call", "idle"}
    /\ calls <= MaxCalls
    /\ \E page \in RepeatPages, y \in Years :
         /\ html' = Some(page)
         /\ year' = y
    /\ pc' = "title"
    /\ stages' = <<>>
    /\ error' = None
    /\ UNCHANGED <<requests, response, Locals, df, calls, memo>>

ReturnToCaller ==
    /\ pc \in {"parsed", "failed"}
    /\ memo' = memo \cup {[html |-> html[1], year |-> year, outcome |-> Outcome]}
    /\ calls' = calls + 1
    /\ pc' = "idle"
    /\ UNCHANGED <<year, requests, response, html, Locals, df, error, stages>>

NextRepeat == Invoke \/ Parse \/ ReturnToCaller

SpecRepeat == Init /\ [][NextRepeat]_vars

(***************************************************************************)
(* Properties                                                              *)
(***************************************************************************)
Ran(stage) == stage \in Range(stages)

Failed(stage) == pc = "failed" /\ error # None /\ error[1].stage = stage

\* _parse_html_hof returned its tuple
ParseSucceeded == pc \in {"parsed", "done"} \/ Failed("assemble")

\* the rows of the page's table body
TBody == html[1].table[1].tbody[1]

Links(row) == {j \in DOMAIN row.td : row.td[j].a # None}

FieldText(td) == IF td.a = None THEN td.text ELSE td.a[1].text

ExpectedUrl ==
    IF year = 2009 THEN "https://www.baseball-reference.com/awards/hof_2009.shtml"
    ELSE "https://www.baseball-reference.com/awards/hof_2030.shtml"

\* C1 as stated: whenever _parse_html_hof succeeds there is one record per body
\* row and every record has len(columns) + 1 fields.
C1_Original ==
    ParseSucceeded =>
        /\ Len(players_data) = Len(TBody)
        /\ \A k \in DOMAIN players_data : Len(players_data[k]) = Len(columns[1]) + 1

\* C1 as amended: whenever _parse_html_hof succeeds there is one record per body
\* row, in table order (rank, then one field per data cell, then the
\* identifier), so a record has as many fields as its row has data cells plus 2;
\* that is len(columns) + 1 exactly for the rows with len(columns) - 1 data cells.
C1_RecordShape ==
    ParseSucceeded =>
        /\ Len(players_data) = Len(TBody)
        /\ \A k \in DOMAIN players_data :
             LET row == TBody[k]
                 rec == players_data[k]
             IN  /\ Len(rec) = Len(row.td) + 2
                 /\ rec[1] = row.th
                 /\ \A j \in DOMAIN row.td : rec[j + 1] = FieldText(row.td[j])
                 /\ (Len(rec) = Len(columns[1]) + 1) <=> (Len(row.td) + 1 = Len(columns[1]))

C1_Witness ==
    /\ ParseSucceeded
    /\ Len(players_data) >= 2
    /\ Len(players_data[1]) = Len(columns[1]) + 1
    /\ Len(players_data[2]) # Len(columns[1]) + 1
    /\ players_data[2][Len(players_data[2])] = NoneStr

HasLi(page) ==
    /\ page.sh # None
    /\ page.sh[1].section_heading_text # None
    /\ page.sh[1].section_heading_text[1].li # NoneStr

LiText(page) == page.sh[1].section_heading_text[1].li

LeadingDigits(s) == SubSeq(s, 1, RunLen(s, 1, TRUE))

\* C2: when the first list item's text, trimmed, starts with decimal digits,
\* _get_total_ballots returns the integer that leading digit run denotes.
C2_LeadingDigitRun ==
    (/\ Ran("ballots")
     /\ HasLi(html[1])
     /\ LeadingDigits(Strip(LiText(html[1]))) # <<>>)
    => total_ballots = Some(ToInt(LeadingDigits(Strip(LiText(html[1])))))

RECURSIVE RunLenBack(_, _, _)
RunLenBack(s, k, digit) ==
    IF k >= 1 /\ (IF digit THEN IsDigit(s[k]) ELSE IsAlphaDot(s[k]))
    THEN 1 + RunLenBack(s, k - 1, digit)
    ELSE 0

\* the identifier the claim describes, read from the end of the href: ".shtml"
\* ends the string, digits precede it, letters and periods precede them
ClaimId(h) ==
    LET e == Len(h) - 6
        d == RunLenBack(h, e, TRUE)
        a == RunLenBack(h, e - d, FALSE)
    IN  IF e >= 2 /\ SubSeq(h, e + 1, Len(h)) = ShtmlSuffix /\ d >= 1 /\ a >= 1
        THEN Some(SubSeq(h, e - d - a + 1, e))
        ELSE None

Href(row, j) == row.td[j].a[1].href

\* C3: in the row just parsed, a hyperlink whose href has the described shape
\* gives exactly the described segment as the identifier, and the first
\* hyperlink whose href has not makes the call fail with an error naming that href.
C3_IdOrNamedError ==
    (/\ stages # <<>>
     /\ stages[Len(stages)] = "body"
     /\ row_i >= 1
     /\ rows[row_i].th # NoneStr
     /\ \A j \in Links(rows[row_i]) : Href(rows[row_i], j) # NoneStr)
    => LET row == rows[row_i]
           bad == {j \in Links(row) : ClaimId(Href(row, j)) = None}
       IN  IF bad = {}
           THEN /\ Len(players_data) = row_i
                /\ players_data[row_i][Len(row.td) + 2] =
                      (IF Links(row) = {} THEN NoneStr
                       ELSE ClaimId(Href(row, Max(Links(row))))[1])
           ELSE /\ pc = "failed"
                /\ \E i \in DOMAIN error[1].args :
                      error[1].args[i] = Href(row, CHOOSE j \in bad : \A n \in bad : j <= n)

\* C4: the last field of every record is the identifier derived from the last
\* data cell of its own row that holds a hyperlink, and None when the row holds
\* none, whatever the rows before it held; the other fields of a row without
\* hyperlinks are the texts of its cells.
C4_LastLinkWins ==
    Ran("body") =>
        \A k \in DOMAIN players_data :
            LET row == TBody[k]
                rec == players_data[k]
            IN  IF Links(row) = {}
                THEN /\ rec[Len(rec)] = NoneStr
                     /\ Len(rec) = Len(row.td) + 2
                     /\ rec[1] = row.th
                     /\ \A j \in DOMAIN row.td : rec[j + 1] = row.td[j].text
                ELSE rec[Len(rec)] = _get_player_id(row.td[Max(Links(row))].a[1]).val

C4_Witness ==
    /\ Ran("body")
    /\ Len(players_data) >= 2
    /\ TBody[1].td = <<tdHenderson, tdRice>>
    /\ players_data[1][Len(players_data[1])] = <<"r", "i", "c", "e", "j", "i", "0", "1">>
    /\ TBody[2].td = <<tdName, tdVotes>>
    /\ players_data[2] = <<TBody[2].th, <<"J", "o", "e">>, <<" ", "5", "1">>, NoneStr>>

\* C5: one GET, to <base>/awards/hof_<year>.shtml; a response that is not ok
\* (status 400 and above, which is what requests calls not ok) makes the call
\* fail with a RuntimeError naming that URL, with no second request and no
\* parsing stage.
C5_SingleFetch ==
    /\ Len(requests) <= 1
    /\ pc # "call" => requests = <<ExpectedUrl>>
    /\ (response # None /\ response[1].status_code >= 400) =>
          /\ pc = "failed"
          /\ error # None
          /\ error[1].type = "RuntimeError"
          /\ error[1].args = <<ExpectedUrl>>
          /\ stages = <<"fetch">>
          /\ html = None
          /\ df = None
    /\ (response # None /\ response[1].status_code < 400) =>
          /\ html = Some(response[1].text)
          /\ ~Failed("fetch")

C5_Witness ==
    /\ response # None
    /\ response[1].status_code = 404
    /\ Failed("fetch")
    /\ requests = <<ExpectedUrl>>

ContainsNoCase(s, sub) ==
    \E k \in 0..(Len(s) - Len(sub)) :
        \A i \in DOMAIN sub : LowerChar(s[k + i]) = LowerChar(sub[i])

HasTitleText(page) == page.title # None /\ page.title[1].string # NoneStr

C7_FailsAtLocate ==
    (Ran("locate") /\ (html[1].sh = None \/ html[1].table = None)) =>
        /\ Failed("locate")
        /\ stages = <<"fetch", "title", "locate">>

IsPrefix(s, t) == Len(s) <= Len(t) /\ s = SubSeq(t, 1, Len(s))

\* C8: the stages run in the fixed order; once a stage has failed nothing runs
\* and the error stays as raised; a failed call returns no DataFrame, and a
\* DataFrame is returned only after every stage has run without error.
C8_Pipeline ==
    [][/\ IsPrefix(stages', StageOrder)
       /\ stages' # stages => (Len(stages') = Len(stages) + 1 /\ IsPrefix(stages, stages'))
       /\ error # None => (stages' = stages /\ error' = error /\ df' = df)
       /\ error' # None => (pc' = "failed" /\ df' = None)
       /\ error' # None => error'[1].stage = stages'[Len(stages')]
       /\ df' # None => (stages' = StageOrder /\ error' = None /\ pc' = "done")]_vars

C8_Witness ==
    /\ Failed("body")
    /\ players_data # <<>>
    /\ df = None
    /\ stages = SubSeq(StageOrder, 1, 6)

\* C9: a call of _parse_html_hof on a page and year already parsed, with calls
\* on other pages in between, ends as the earlier call did: the same columns,
\* total_ballots and records, or the same error.
C9_Deterministic ==
    pc \in {"parsed", "failed"} =>
        \A m \in memo : (m.html = html[1] /\ m.year = year) => m.outcome = Outcome

C9_Witness ==
    /\ pc = "parsed"
    /\ calls >= 3
    /\ Cardinality(memo) >= 2
    /\ players_data # <<>>
    /\ \E m \in memo : m.html = html[1] /\ m.year = year

\* c is raw without its leading and trailing whitespace
IsTrimOf(c, raw) ==
    /\ \E a \in 0..Len(raw) : \E b \in 0..(Len(raw) - a) :
          /\ c = SubSeq(raw, a + 1, Len(raw) - b)
          /\ \A i \in 1..a : raw[i] \in Whitespace
          /\ \A i \in (Len(raw) - b + 1)..Len(raw) : raw[i] \in Whitespace
    /\ c = <<>> \/ (c[1] \notin Whitespace /\ c[Len(c)] \notin Whitespace)

\* C10: with two or more header rows the columns are the trimmed texts of the
\* second row's header cells, in order; with fewer the header stage fails and
\* no column list is returned.
C10_SecondHeaderRow ==
    Ran("header") =>
        LET hdr == html[1].table[1].thead IN
        IF hdr # None /\ Len(hdr[1]) >= 2
        THEN /\ ~Failed("header")
             /\ columns # None
             /\ Len(columns[1]) = Len(hdr[1][2])
             /\ \A k \in DOMAIN columns[1] : IsTrimOf(columns[1][k], hdr[1][2][k])
        ELSE /\ Failed("header")
             /\ error[1].type \in {"IndexError", "TypeError"}
             /\ columns = None

C10_Witness ==
    /\ Ran("header")
    /\ html[1].table[1].thead = Some(<<GroupRow, ColumnRow>>)
    /\ columns = Some(<<<<"R", "k">>, <<"N", "a", "m", "e">>, <<"V", "o", "t", "e", "s">>>>)

====
